---- MODULE Spec2Model ----
(***************************************************************************)
(* MACI off-chain state engine (core/ts/MaciState.ts: class MaciState) and *)
(* the coordinator's proof orchestration (ProofGeneratorService.generate). *)
(*                                                                         *)
(* MaciState objects live in a small heap: an object holds references to   *)
(* its stateLeaves array, its polls array and its stateTree, so that two   *)
(* objects sharing an array is something the model can express.  Object 1  *)
(* is the state built by `new MaciState(d)`; object 2 is the latest object *)
(* returned by copy() or by fromJSON(x.toJSON()).                          *)
(***************************************************************************)
EXTENDS Integers, Sequences, FiniteSets, TLC

VARIABLES
    objs,        \* Seq of MaciState objects (fields; arrays and tree by reference)
    stateTrees,  \* heap of IncrementalQuinTree: id -> [depth, leaves]
    leafArrays,  \* heap of StateLeaf[]       : id -> Seq(StateLeaf)
    pollArrays,  \* heap of Poll[]            : id -> Seq(Poll | null)
    origin,      \* how object 2 was made: "none" | "copy" | "fromJSON"
    ret,         \* outcome of the last MaciState call: [op, err, val]
    pc,          \* ProofGeneratorService.generate: position in the async function
    chain,       \* what the collaborators will answer during this invocation
    loc,         \* generate's local variables read so far
    calls,       \* collaborator calls made so far, in order
    outcome,     \* "running" | "returned" | the ErrorCodes value thrown
    disk         \* what the proof backend has written at ./proofs and ./tally.json

mvars == <<objs, stateTrees, leafArrays, pollArrays, origin, ret>>
gvars == <<pc, chain, loc, calls, outcome, disk>>
vars  == <<objs, stateTrees, leafArrays, pollArrays, origin, ret,
           pc, chain, loc, calls, outcome, disk>>

-----------------------------------------------------------------------------
(* Bounds of the model *)

\* signUp is not called on an object whose numSignUps or stateLeaves.length reached this
MaxSignUps == 3
\* deployPoll / deployNullPoll are not called on a registry of this length
MaxPolls == 1
\* registry length admitted under PollSpec and JsonSpec
MaxPollsWide == 2
\* the like of MaxSignUps under CapSpec, where a depth-1 tree is filled
MaxSignUpsWide == 6

\* arguments the calls are made with
TreeDepthChoices == {0, 1}
PubKeys == {1, 2}
Balances == {100}
Timestamps == {1}
IntDepths == {1}
BatchSizes == {5}
IntDepthsWide == {0, 1, 2, 3}
BatchSizesWide == {1, 5, 25}
EndTimestamps == {10}
OnePubKey == {1}

-----------------------------------------------------------------------------
(* Values *)

STATE_TREE_ARITY == 5

\* currentPollBeingProcessed?: number  -- the two non-numeric contents
Undefined == -1
NaN == -2

RECURSIVE Pow(_, _)
Pow(a, b) == IF b = 0 THEN 1 ELSE a * Pow(a, b - 1)

\* n.toString() for n >= 0: the decimal digits
RECURSIVE ToStr(_)
ToStr(n) == IF n < 10 THEN <<n>> ELSE Append(ToStr(n \div 10), n % 10)

\* BigInt(s) of a decimal string
RECURSIVE ParseDigits(_)
ParseDigits(s) ==
    IF Len(s) = 0 THEN 0
    ELSE 10 * ParseDigits(SubSeq(s, 1, Len(s) - 1)) + s[Len(s)]

\* Number.parseInt(s, 10): NaN when there is no leading digit
ParseInt(s) == IF Len(s) = 0 THEN NaN ELSE ParseDigits(s)

\* truthiness of an optional number: undefined, NaN and 0 are falsy
Truthy(n) == n # Undefined /\ n # NaN /\ n # 0

StateLeaf(pubKey, voiceCreditBalance, timestamp) ==
    [pubKey |-> pubKey, voiceCreditBalance |-> voiceCreditBalance, timestamp |-> timestamp]

blankStateLeaf == StateLeaf(0, 0, 0)

\* StateLeaf.hash(): hash of the leaf's fields, collision free on the leaves used
Hash(leaf) == 1 + leaf.pubKey + 10 * leaf.timestamp + 100 * leaf.voiceCreditBalance

blankStateLeafHash == Hash(blankStateLeaf)

StateLeafToJSON(leaf) ==
    [pubKey |-> <<"macipk", leaf.pubKey>>,
     voiceCreditBalance |-> ToStr(leaf.voiceCreditBalance),
     timestamp |-> ToStr(leaf.timestamp)]

StateLeafFromJSON(j) ==
    StateLeaf(j.pubKey[2], ParseDigits(j.voiceCreditBalance), ParseDigits(j.timestamp))

-----------------------------------------------------------------------------
(* IncrementalQuinTree: the accumulator, as its insertion log *)

NewTree(depth) == [depth |-> depth, leaves |-> <<>>]

Capacity(tree) == Pow(STATE_TREE_ARITY, tree.depth)

\* insert(value): append, or throw when the tree is full
TreeInsert(tree, h) ==
    IF Len(tree.leaves) >= Capacity(tree)
    THEN [ok |-> FALSE, tree |-> tree]
    ELSE [ok |-> TRUE, tree |-> [tree EXCEPT !.leaves = Append(@, h)]]

-----------------------------------------------------------------------------
(* Poll *)

TreeDepths(intStateTreeDepth) ==
    [intStateTreeDepth |-> intStateTreeDepth, messageTreeDepth |-> 2,
     messageTreeSubDepth |-> 1, voteOptionTreeDepth |-> 2]

NullPoll == [null |-> TRUE]

IsNull(p) == p.null

NewPoll(pollEndTimestamp, coordinatorKeypair, treeDepths, batchSizes, maxValues, ref) ==
    [null |-> FALSE,
     pollEndTimestamp |-> pollEndTimestamp,
     coordinatorKeypair |-> coordinatorKeypair,
     treeDepths |-> treeDepths,
     batchSizes |-> batchSizes,
     maxValues |-> maxValues,
     maciStateRef |-> ref]

PollCopy(p) == p

PollEquals(p, q) ==
    /\ p.pollEndTimestamp = q.pollEndTimestamp
    /\ p.coordinatorKeypair = q.coordinatorKeypair
    /\ p.treeDepths = q.treeDepths
    /\ p.batchSizes = q.batchSizes
    /\ p.maxValues = q.maxValues

PollToJSON(p) ==
    [pollEndTimestamp |-> ToStr(p.pollEndTimestamp),
     coordinatorKeypair |-> p.coordinatorKeypair,
     treeDepths |-> p.treeDepths,
     batchSizes |-> p.batchSizes,
     maxValues |-> p.maxValues]

PollFromJSON(j, ref) ==
    NewPoll(ParseDigits(j.pollEndTimestamp), j.coordinatorKeypair, j.treeDepths,
            j.batchSizes, j.maxValues, ref)

-----------------------------------------------------------------------------
(* MaciState: values *)

Map(s, F(_)) == [i \in 1..Len(s) |-> F(s[i])]

\* The object a constructor call leaves behind, with its own tree and arrays.
\* leavesRef / pollsRef = 0: the array is the object's own; otherwise the id of
\* the array of another object that this object refers to.
Constructed(stateTreeDepth) ==
    [stateTreeDepth |-> stateTreeDepth,
     stateTree |-> TreeInsert(NewTree(stateTreeDepth), blankStateLeafHash).tree,
     stateLeaves |-> <<blankStateLeaf>>,
     polls |-> <<>>,
     numSignUps |-> 0 + 1,
     pollBeingProcessed |-> "undefined",
     currentPollBeingProcessed |-> Undefined,
     leavesRef |-> 0,
     pollsRef |-> 0]

\* An object of the heap with its references followed
View(o) ==
    [stateTreeDepth |-> objs[o].stateTreeDepth,
     stateTree |-> stateTrees[objs[o].stateTree],
     stateLeaves |-> leafArrays[objs[o].stateLeaves],
     polls |-> pollArrays[objs[o].polls],
     numSignUps |-> objs[o].numSignUps,
     pollBeingProcessed |-> objs[o].pollBeingProcessed,
     currentPollBeingProcessed |-> objs[o].currentPollBeingProcessed]

HasNullPoll(polls) == \E i \in 1..Len(polls) : IsNull(polls[i])

-----------------------------------------------------------------------------
(* MaciState: methods, as functions of the heap *)

\* signUp(pubKey, initialVoiceCreditBalance, timestamp) on object o: the fields
\* after the call, and what the call returned or threw
signUp(o, pubKey, initialVoiceCreditBalance, timestamp) ==
    LET this == View(o)
        numSignUps == this.numSignUps + 1
        stateLeaf == StateLeaf(pubKey, initialVoiceCreditBalance, timestamp)
        ins == TreeInsert(this.stateTree, Hash(stateLeaf))
    IN  IF ins.ok
        THEN [err |-> "none",
              val |-> Len(Append(this.stateLeaves, stateLeaf)) - 1,
              numSignUps |-> numSignUps,
              stateTree |-> ins.tree,
              stateLeaves |-> Append(this.stateLeaves, stateLeaf)]
        ELSE [err |-> "CapacityExceeded",
              val |-> 0,
              numSignUps |-> numSignUps,
              stateTree |-> this.stateTree,
              stateLeaves |-> this.stateLeaves]

\* deployPoll with the tally batch taken from the message batch size
deployPoll_messageBatch(o, pollEndTimestamp, maxValues, treeDepths, messageBatchSize, coordinatorKeypair) ==
    NewPoll(pollEndTimestamp,
            coordinatorKeypair,
            treeDepths,
            [messageBatchSize |-> messageBatchSize,
             subsidyBatchSize |-> Pow(STATE_TREE_ARITY, treeDepths.intStateTreeDepth),
             tallyBatchSize |-> messageBatchSize],
            maxValues,
            o)

\* the Poll that deployPoll constructs
deployPoll(o, pollEndTimestamp, maxValues, treeDepths, messageBatchSize, coordinatorKeypair) ==
    NewPoll(pollEndTimestamp,
            coordinatorKeypair,
            treeDepths,
            [messageBatchSize |-> messageBatchSize,
             subsidyBatchSize |-> Pow(STATE_TREE_ARITY, treeDepths.intStateTreeDepth),
             tallyBatchSize |-> Pow(STATE_TREE_ARITY, treeDepths.intStateTreeDepth)],
            maxValues,
            o)

\* copy that hands its own stateLeaves array to the new object
copy_sharedLeaves(o) ==
    LET this == View(o)
        copied == Constructed(this.stateTreeDepth)
    IN  IF HasNullPoll(this.polls)
        THEN [err |-> "TypeError", obj |-> copied]
        ELSE [err |-> "none",
              obj |-> [copied EXCEPT !.stateLeaves = this.stateLeaves,
                                     !.leavesRef = objs[o].stateLeaves,
                                     !.polls = Map(this.polls, PollCopy)]]

\* copy(): x.copy() on a null registry entry throws
copy(o) ==
    LET this == View(o)
        copied == Constructed(this.stateTreeDepth)
    IN  IF HasNullPoll(this.polls)
        THEN [err |-> "TypeError", obj |-> copied]
        ELSE [err |-> "none",
              obj |-> [copied EXCEPT !.stateLeaves = Map(this.stateLeaves, LAMBDA x : x),
                                     !.polls = Map(this.polls, PollCopy)]]

\* equals(m) on views: "true", "false", or "TypeError" when polls[i].equals is
\* called on a null entry
equals(this, m) ==
    LET result == /\ this.stateTreeDepth = m.stateTreeDepth
                  /\ Len(this.polls) = Len(m.polls)
                  /\ Len(this.stateLeaves) = Len(m.stateLeaves)
    IN  IF ~result THEN "false"
        ELSE IF HasNullPoll(this.polls) THEN "TypeError"
        ELSE IF \E i \in 1..Len(this.polls) :
                    IsNull(m.polls[i]) \/ ~PollEquals(this.polls[i], m.polls[i])
             THEN "false"
        ELSE IF \E i \in 1..Len(this.stateLeaves) : this.stateLeaves[i] # m.stateLeaves[i]
             THEN "false"
        ELSE "true"

\* toJSON(): poll.toJSON() on a null registry entry throws
toJSON(this) ==
    IF HasNullPoll(this.polls)
    THEN [err |-> "TypeError"]
    ELSE [err |-> "none",
          stateTreeDepth |-> this.stateTreeDepth,
          polls |-> Map(this.polls, PollToJSON),
          stateLeaves |-> Map(this.stateLeaves, StateLeafToJSON),
          pollBeingProcessed |->
              IF this.pollBeingProcessed = "true" THEN "true" ELSE "false",
          currentPollBeingProcessed |->
              IF Truthy(this.currentPollBeingProcessed)
              THEN ToStr(this.currentPollBeingProcessed) ELSE <<>>,
          numSignUps |-> this.numSignUps]

\* the loop of fromJSON: insert the hashes of leaves i.. into the tree
RECURSIVE Reinsert(_, _, _)
Reinsert(tree, jsonLeaves, i) ==
    IF i > Len(jsonLeaves) THEN [ok |-> TRUE, tree |-> tree]
    ELSE LET ins == TreeInsert(tree, Hash(StateLeafFromJSON(jsonLeaves[i])))
         IN  IF ins.ok THEN Reinsert(ins.tree, jsonLeaves, i + 1) ELSE ins

\* fromJSON that skips the serialized blank leaf in stateLeaves as well
fromJSON_dropsFirst(json, ref) ==
    LET maciState == Constructed(json.stateTreeDepth)
        re == Reinsert(maciState.stateTree, json.stateLeaves, 2)
    IN  IF ~re.ok
        THEN [err |-> "CapacityExceeded", obj |-> maciState]
        ELSE [err |-> "none",
              obj |-> [maciState EXCEPT
                         !.stateLeaves = Map(SubSeq(json.stateLeaves, 2, Len(json.stateLeaves)),
                                             StateLeafFromJSON),
                         !.pollBeingProcessed = json.pollBeingProcessed,
                         !.currentPollBeingProcessed = ParseInt(json.currentPollBeingProcessed),
                         !.numSignUps = json.numSignUps,
                         !.stateTree = re.tree,
                         !.polls = Map(json.polls, LAMBDA j : PollFromJSON(j, ref))]]

\* fromJSON(json); ref is the identity of the object being built
fromJSON(json, ref) ==
    LET maciState == Constructed(json.stateTreeDepth)
        \* the constructor inserted the blank leaf: JS index 1 is position 2 here
        re == Reinsert(maciState.stateTree, json.stateLeaves, 2)
    IN  IF ~re.ok
        THEN [err |-> "CapacityExceeded", obj |-> maciState]
        ELSE [err |-> "none",
              obj |-> [maciState EXCEPT
                         !.stateLeaves = Map(json.stateLeaves, StateLeafFromJSON),
                         !.pollBeingProcessed = json.pollBeingProcessed,
                         !.currentPollBeingProcessed = ParseInt(json.currentPollBeingProcessed),
                         !.numSignUps = json.numSignUps,
                         !.stateTree = re.tree,
                         !.polls = Map(json.polls, LAMBDA j : PollFromJSON(j, ref))]]

-----------------------------------------------------------------------------
(* MaciState: actions *)

Objs == 1..Len(objs)

Ret(op, err, val) == [op |-> op, err |-> err, val |-> val]

MInit ==
    \E d \in TreeDepthChoices :
        LET c == Constructed(d) IN
        /\ objs = <<[stateTreeDepth |-> c.stateTreeDepth, stateTree |-> 1,
                     stateLeaves |-> 1, polls |-> 1, numSignUps |-> c.numSignUps,
                     pollBeingProcessed |-> c.pollBeingProcessed,
                     currentPollBeingProcessed |-> c.currentPollBeingProcessed]>>
        /\ stateTrees = <<c.stateTree>>
        /\ leafArrays = <<c.stateLeaves>>
        /\ pollArrays = <<c.polls>>
        /\ origin = "none"
        /\ ret = Ret("new", "none", 0)

\* the object b returned by copy or fromJSON becomes object 2
Install(b) ==
    LET lref == IF b.leavesRef = 0 THEN 2 ELSE b.leavesRef
        pref == IF b.pollsRef = 0 THEN 2 ELSE b.pollsRef
    IN
    /\ objs' = <<objs[1],
                 [stateTreeDepth |-> b.stateTreeDepth, stateTree |-> 2,
                  stateLeaves |-> lref, polls |-> pref, numSignUps |-> b.numSignUps,
                  pollBeingProcessed |-> b.pollBeingProcessed,
                  currentPollBeingProcessed |-> b.currentPollBeingProcessed]>>
    /\ stateTrees' = <<stateTrees[1], b.stateTree>>
    /\ leafArrays' = <<leafArrays[1],
                       IF lref = 2 /\ b.leavesRef = 2 THEN leafArrays[2] ELSE b.stateLeaves>>
    /\ pollArrays' = <<pollArrays[1],
                       IF pref = 2 /\ b.pollsRef = 2 THEN pollArrays[2] ELSE b.polls>>

SignUpTo(o, pubKey, initialVoiceCreditBalance, timestamp, maxSignUps) ==
    LET r == signUp(o, pubKey, initialVoiceCreditBalance, timestamp) IN
    /\ objs[o].numSignUps < maxSignUps
    /\ Len(leafArrays[objs[o].stateLeaves]) < maxSignUps
    /\ objs' = [objs EXCEPT ![o].numSignUps = r.numSignUps]
    /\ stateTrees' = [stateTrees EXCEPT ![objs[o].stateTree] = r.stateTree]
    /\ leafArrays' = [leafArrays EXCEPT ![objs[o].stateLeaves] = r.stateLeaves]
    /\ ret' = Ret("signUp", r.err, r.val)
    /\ UNCHANGED <<pollArrays, origin>>
    /\ UNCHANGED gvars

SignUp(o, pubKey, initialVoiceCreditBalance, timestamp) ==
    SignUpTo(o, pubKey, initialVoiceCreditBalance, timestamp, MaxSignUps)

DeployPollTo(o, pollEndTimestamp, intStateTreeDepth, messageBatchSize, maxPolls) ==
    LET poll == deployPoll(o, pollEndTimestamp, [maxMessages |-> 25, maxVoteOptions |-> 25],
                           TreeDepths(intStateTreeDepth), messageBatchSize, 1)
        polls == Append(pollArrays[objs[o].polls], poll)
    IN
    /\ Len(pollArrays[objs[o].polls]) < maxPolls
    /\ pollArrays' = [pollArrays EXCEPT ![objs[o].polls] = polls]
    /\ ret' = Ret("deployPoll", "none", Len(polls) - 1)
    /\ UNCHANGED <<objs, stateTrees, leafArrays, origin>>
    /\ UNCHANGED gvars

DeployPoll(o, pollEndTimestamp, intStateTreeDepth, messageBatchSize) ==
    DeployPollTo(o, pollEndTimestamp, intStateTreeDepth, messageBatchSize, MaxPolls)

\* deployNullPoll that writes the placeholder over the last entry of the registry
DeployNullPollTo_overwrites(o, maxPolls) ==
    LET polls == pollArrays[objs[o].polls] IN
    /\ Len(polls) < maxPolls
    /\ pollArrays' = [pollArrays EXCEPT ![objs[o].polls] =
                         IF Len(polls) = 0 THEN <<NullPoll>>
                         ELSE [polls EXCEPT ![Len(polls)] = NullPoll]]
    /\ ret' = Ret("deployNullPoll", "none", 0)
    /\ UNCHANGED <<objs, stateTrees, leafArrays, origin>>
    /\ UNCHANGED gvars

DeployNullPollTo(o, maxPolls) ==
    /\ Len(pollArrays[objs[o].polls]) < maxPolls
    /\ pollArrays' = [pollArrays EXCEPT ![objs[o].polls] = Append(@, NullPoll)]
    /\ ret' = Ret("deployNullPoll", "none", 0)
    /\ UNCHANGED <<objs, stateTrees, leafArrays, origin>>
    /\ UNCHANGED gvars

DeployNullPoll(o) == DeployNullPollTo(o, MaxPolls)

Copy(o) ==
    LET r == copy(o) IN
    /\ ret' = Ret("copy", r.err, 0)
    /\ IF r.err = "none"
       THEN Install(r.obj) /\ origin' = "copy"
       ELSE UNCHANGED <<objs, stateTrees, leafArrays, pollArrays, origin>>
    /\ UNCHANGED gvars

\* MaciState.fromJSON(o.toJSON())
Deserialize(o) ==
    LET json == toJSON(View(o))
        r == IF json.err = "none" THEN fromJSON(json, 2) ELSE json
    IN
    /\ ret' = Ret("fromJSON", r.err, 0)
    /\ IF r.err = "none"
       THEN Install(r.obj) /\ origin' = "fromJSON"
       ELSE UNCHANGED <<objs, stateTrees, leafArrays, pollArrays, origin>>
    /\ UNCHANGED gvars

\* Poll.processMessages on poll pollId of object o: the owner is marked as
\* processing that poll, unless a poll is being processed already
StartProcessing(o, pollId) ==
    /\ pollId < Len(pollArrays[objs[o].polls])
    /\ ~IsNull(pollArrays[objs[o].polls][pollId + 1])
    /\ objs[o].pollBeingProcessed # "true"
    /\ objs' = [objs EXCEPT ![o].pollBeingProcessed = "true",
                            ![o].currentPollBeingProcessed = pollId]
    /\ ret' = Ret("processMessages", "none", 0)
    /\ UNCHANGED <<stateTrees, leafArrays, pollArrays, origin>>
    /\ UNCHANGED gvars

\* the serialized records fromJSON is given: o.toJSON() with any boolean
\* pollBeingProcessed, with currentPollBeingProcessed empty or the decimal index
\* of a poll of the record, and with numSignUps as written or off by one
Records(o) ==
    LET json == toJSON(View(o)) IN
    IF json.err # "none" THEN {}
    ELSE {[json EXCEPT !.pollBeingProcessed = p,
                       !.currentPollBeingProcessed = c,
                       !.numSignUps = n] :
             p \in {"true", "false"},
             c \in {<<>>} \cup {ToStr(i) : i \in 0..(Len(json.polls) - 1)},
             n \in {json.numSignUps, json.numSignUps + 1}}

\* MaciState.fromJSON(r) for a record r of Records(o)
FromRecord(o) ==
    \E r \in Records(o) :
        LET m == fromJSON(r, 2) IN
        /\ ret' = Ret("fromJSON", m.err, 0)
        /\ IF m.err = "none"
           THEN Install(m.obj) /\ origin' = "fromJSON"
           ELSE UNCHANGED <<objs, stateTrees, leafArrays, pollArrays, origin>>
        /\ UNCHANGED gvars

-----------------------------------------------------------------------------
(* ProofGeneratorService.generate *)

ZeroAddress == 0

\* Keypair(privKey).pubKey: the public key of a private key
PubKeyOf(privKey) == [x |-> 10 + privKey, y |-> 20 + privKey]

\* PubKey.equals: both coordinates
PubKeyEquals(a, b) == a.x = b.x /\ a.y = b.y

\* what the collaborators answer during one invocation
PollAddresses == {ZeroAddress, 1}
MainRoots == {0, 7}
OnChainPubKeys == {PubKeyOf(1), PubKeyOf(2), [x |-> PubKeyOf(1).x, y |-> PubKeyOf(2).y]}
Decryptions == {"throws", "key1", "key2"}
Reconstructions == {"throws", "noPoll", "poll"}

PrivKeyOf(d) == IF d = "key1" THEN 1 ELSE 2

Chains ==
    [pollAddress : PollAddresses,
     stateMerged : BOOLEAN,
     mainRoot : MainRoots,
     coordinatorPubKey : OnChainPubKeys,
     decrypt : Decryptions,
     prepareState : Reconstructions,
     mpOk : BOOLEAN,
     tallyOk : BOOLEAN]

\* mainRoot is kept as printed by toString(); <<>> while unread
NoLoc == [pollAddress |-> "unread", isStateAqMerged |-> "unread", mainRoot |-> <<>>,
          foundPoll |-> "unread"]

Bool(b) == IF b THEN "true" ELSE "false"

GInit ==
    /\ pc = "idle"
    /\ chain = <<>>
    /\ loc = NoLoc
    /\ calls = <<>>
    /\ outcome = "idle"
    /\ disk = {}

Throw(code) == pc' = "done" /\ outcome' = code

\* generate(args) is invoked
Start ==
    /\ pc = "idle"
    /\ UNCHANGED mvars
    /\ UNCHANGED disk
    /\ chain' \in Chains
    /\ pc' = "polls"
    /\ outcome' = "running"
    /\ UNCHANGED <<loc, calls>>

\* pollAddress = await maciContract.polls(poll); zero address check
ResolvePoll ==
    /\ pc = "polls"
    /\ UNCHANGED mvars
    /\ UNCHANGED disk
    /\ calls' = calls \o <<"getContract(MACI)", "getDeployer", "polls">>
    /\ loc' = [loc EXCEPT !.pollAddress =
                         IF chain.pollAddress = ZeroAddress THEN "ZeroAddress" ELSE "address"]
    /\ IF chain.pollAddress = ZeroAddress
       THEN Throw("POLL_NOT_FOUND")
       ELSE pc' = "pollConfig" /\ UNCHANGED outcome
    /\ UNCHANGED chain

\* poll contract, extContracts / coordinatorPubKey, message AccQueue contract
ReadPollConfig ==
    /\ pc = "pollConfig"
    /\ UNCHANGED mvars
    /\ UNCHANGED disk
    /\ calls' = calls \o <<"getContract(Poll)", "extContracts", "coordinatorPubKey",
                           "getContract(AccQueue)">>
    /\ pc' = "stateMerged"
    /\ UNCHANGED <<chain, loc, outcome>>

\* the merge flag is read and logged, but the invocation goes on
CheckStateMerged_noThrow ==
    /\ pc = "stateMerged"
    /\ UNCHANGED mvars
    /\ UNCHANGED disk
    /\ calls' = Append(calls, "stateMerged")
    /\ loc' = [loc EXCEPT !.isStateAqMerged = Bool(chain.stateMerged)]
    /\ pc' = "mainRoot"
    /\ UNCHANGED <<chain, outcome>>

\* isStateAqMerged = await pollContract.stateMerged(); throw unless merged
CheckStateMerged ==
    /\ pc = "stateMerged"
    /\ UNCHANGED mvars
    /\ UNCHANGED disk
    /\ calls' = Append(calls, "stateMerged")
    /\ loc' = [loc EXCEPT !.isStateAqMerged = Bool(chain.stateMerged)]
    /\ IF ~chain.stateMerged
       THEN Throw("NOT_MERGED_STATE_TREE")
       ELSE pc' = "mainRoot" /\ UNCHANGED outcome
    /\ UNCHANGED chain

\* mainRoot = await messageAq.getMainRoot(depth); throw when it prints as "0"
CheckMessageTree ==
    /\ pc = "mainRoot"
    /\ UNCHANGED mvars
    /\ UNCHANGED disk
    /\ calls' = calls \o <<"treeDepths", "getMainRoot">>
    /\ loc' = [loc EXCEPT !.mainRoot = ToStr(chain.mainRoot)]
    /\ IF ToStr(chain.mainRoot) = <<0>>
       THEN Throw("NOT_MERGED_MESSAGE_TREE")
       ELSE pc' = "privateKey" /\ UNCHANGED outcome
    /\ UNCHANGED chain

\* the key comparison looks at the x coordinate only
AuthenticateKey_xOnly ==
    /\ pc = "privateKey"
    /\ UNCHANGED mvars
    /\ UNCHANGED disk
    /\ calls' = calls \o <<"getPrivateKey", "decrypt">>
    /\ IF chain.decrypt = "throws"
       THEN Throw("DecryptError") /\ UNCHANGED loc
       ELSE LET coordinatorKeypair == [pubKey |-> PubKeyOf(PrivKeyOf(chain.decrypt))]
                publicKey == [x |-> ParseDigits(ToStr(chain.coordinatorPubKey.x)),
                              y |-> ParseDigits(ToStr(chain.coordinatorPubKey.y))]
            IN  /\ UNCHANGED loc
                /\ IF coordinatorKeypair.pubKey.x # publicKey.x
                   THEN Throw("PRIVATE_KEY_MISMATCH")
                   ELSE pc' = "prepareState" /\ UNCHANGED outcome
    /\ UNCHANGED chain

\* decrypt the coordinator key, derive its keypair, compare with the on-chain key
AuthenticateKey ==
    /\ pc = "privateKey"
    /\ UNCHANGED mvars
    /\ UNCHANGED disk
    /\ calls' = calls \o <<"getPrivateKey", "decrypt">>
    /\ IF chain.decrypt = "throws"
       THEN Throw("DecryptError") /\ UNCHANGED loc
       ELSE LET coordinatorKeypair == [pubKey |-> PubKeyOf(PrivKeyOf(chain.decrypt))]
                publicKey == [x |-> ParseDigits(ToStr(chain.coordinatorPubKey.x)),
                              y |-> ParseDigits(ToStr(chain.coordinatorPubKey.y))]
            IN  /\ UNCHANGED loc
                /\ IF ~PubKeyEquals(coordinatorKeypair.pubKey, publicKey)
                   THEN Throw("PRIVATE_KEY_MISMATCH")
                   ELSE pc' = "prepareState" /\ UNCHANGED outcome
    /\ UNCHANGED chain

\* maciState = await ProofGenerator.prepareState(...): the chain event scan
PrepareState ==
    /\ pc = "prepareState"
    /\ UNCHANGED mvars
    /\ UNCHANGED disk
    /\ calls' = Append(calls, "prepareState")
    /\ IF chain.prepareState = "throws"
       THEN Throw("PrepareStateError")
       ELSE pc' = "foundPoll" /\ UNCHANGED outcome
    /\ UNCHANGED <<chain, loc>>

\* the reconstructed state is not asked whether it holds the poll
LookupPoll_noCheck ==
    /\ pc = "foundPoll"
    /\ UNCHANGED mvars
    /\ UNCHANGED disk
    /\ loc' = [loc EXCEPT !.foundPoll = Bool(chain.prepareState = "poll")]
    /\ pc' = "generateMpProofs"
    /\ UNCHANGED <<chain, calls, outcome>>

\* foundPoll = maciState.polls.get(BigInt(poll)); throw when absent
LookupPoll ==
    /\ pc = "foundPoll"
    /\ UNCHANGED mvars
    /\ UNCHANGED disk
    /\ loc' = [loc EXCEPT !.foundPoll = Bool(chain.prepareState = "poll")]
    /\ IF chain.prepareState # "poll"
       THEN Throw("POLL_NOT_FOUND")
       ELSE pc' = "generateMpProofs" /\ UNCHANGED outcome
    /\ UNCHANGED <<chain, calls>>

\* what the backend leaves at outputDir and tallyOutputFile
MpArtifacts == {"proofs/process"}
TallyArtifacts == {"proofs/tally", "tally.json"}

\* generateMpProofs whose rejection is swallowed: generate goes on to the tally
GenerateMpProofs_ignoresFailure ==
    /\ pc = "generateMpProofs"
    /\ UNCHANGED mvars
    /\ calls' = calls \o <<"getZkeyFilePaths", "getZkeyFilePaths", "generateMpProofs">>
    /\ disk' = IF chain.mpOk THEN disk \cup MpArtifacts ELSE disk
    /\ pc' = "generateTallyProofs"
    /\ UNCHANGED <<chain, loc, outcome>>

\* new ProofGenerator(...); processProofs = await proofGenerator.generateMpProofs()
GenerateMpProofs ==
    /\ pc = "generateMpProofs"
    /\ UNCHANGED mvars
    /\ calls' = calls \o <<"getZkeyFilePaths", "getZkeyFilePaths", "generateMpProofs">>
    /\ IF ~chain.mpOk
       THEN Throw("MpProofsError") /\ UNCHANGED disk
       ELSE pc' = "generateTallyProofs" /\ disk' = disk \cup MpArtifacts /\ UNCHANGED outcome
    /\ UNCHANGED <<chain, loc>>

\* { proofs, tallyData } = await proofGenerator.generateTallyProofs(network); return
GenerateTallyProofs ==
    /\ pc = "generateTallyProofs"
    /\ UNCHANGED mvars
    /\ calls' = Append(calls, "generateTallyProofs")
    /\ IF ~chain.tallyOk
       THEN Throw("TallyProofsError") /\ UNCHANGED disk
       ELSE pc' = "done" /\ outcome' = "returned" /\ disk' = disk \cup TallyArtifacts
    /\ UNCHANGED <<chain, loc>>

-----------------------------------------------------------------------------
(* Specifications *)

Init == MInit /\ GInit

\* the state engine
Next ==
    \/ \E o \in Objs, k \in PubKeys, b \in Balances, t \in Timestamps : SignUp(o, k, b, t)
    \/ \E o \in Objs, e \in EndTimestamps, d \in IntDepths, m \in BatchSizes :
           DeployPoll(o, e, d, m)
    \/ \E o \in Objs : DeployNullPoll(o)
    \/ \E o \in Objs : Copy(o)
    \/ \E o \in Objs : Deserialize(o)

Spec == Init /\ [][Next]_vars

\* one invocation of generate
GenNext ==
    \/ Start
    \/ ResolvePoll
    \/ ReadPollConfig
    \/ CheckStateMerged
    \/ CheckMessageTree
    \/ AuthenticateKey
    \/ PrepareState
    \/ LookupPoll
    \/ GenerateMpProofs
    \/ GenerateTallyProofs

GenSpec == Init /\ [][GenNext]_vars

\* deployments into one registry, over the wide argument sets
PollNext ==
    \E e \in EndTimestamps, d \in IntDepthsWide, m \in BatchSizesWide :
        DeployPollTo(1, e, d, m, MaxPollsWide)

PollSpec == Init /\ [][PollNext]_vars

\* serialized records: one state that signs up, deploys and processes polls,
\* and the objects fromJSON makes of its records
JsonNext ==
    \/ \E k \in OnePubKey, b \in Balances, t \in Timestamps : SignUp(1, k, b, t)
    \/ \E e \in EndTimestamps, d \in IntDepths, m \in BatchSizes :
           DeployPollTo(1, e, d, m, MaxPollsWide)
    \/ \E i \in 0..(MaxPollsWide - 1) : StartProcessing(1, i)
    \/ FromRecord(1)

JsonSpec == Init /\ [][JsonNext]_vars

\* filling the tree: sign-ups and copies up to MaxSignUpsWide leaves
CapNext ==
    \/ \E o \in Objs, k \in OnePubKey, b \in Balances, t \in Timestamps :
           SignUpTo(o, k, b, t, MaxSignUpsWide)
    \/ \E o \in Objs : Copy(o)

CapSpec == Init /\ [][CapNext]_vars

\* the poll registry of one state, with placeholders, up to MaxPollsWide entries
RegNext ==
    \/ \E k \in OnePubKey, b \in Balances, t \in Timestamps : SignUp(1, k, b, t)
    \/ \E e \in EndTimestamps, d \in IntDepths, m \in BatchSizes :
           DeployPollTo(1, e, d, m, MaxPollsWide)
    \/ DeployNullPollTo(1, MaxPollsWide)
    \/ Copy(1)
    \/ Deserialize(1)

RegSpec == Init /\ [][RegNext]_vars

-----------------------------------------------------------------------------
(* Properties *)

Leaves(o) == leafArrays[objs[o].stateLeaves]
Polls(o) == pollArrays[objs[o].polls]
Tree(o) == stateTrees[objs[o].stateTree]

Member(x, s) == \E i \in 1..Len(s) : s[i] = x

\* C1 (the object returned by copy): when copy() has just returned, the new
\* object's stateLeaves.length equals its numSignUps.
C1_CopyLeafCountIsNumSignUps ==
    (ret.op = "copy" /\ ret.err = "none") => Len(Leaves(2)) = objs[2].numSignUps

\* C2: in every object, the leaves inserted into stateTree are exactly
\* hash(stateLeaves[0]), hash(stateLeaves[1]), ... in that order.
C2_TreeIsHashOfLeaves ==
    \A o \in Objs :
        /\ Len(Tree(o).leaves) = Len(Leaves(o))
        /\ \A i \in 1..Len(Leaves(o)) :
               i <= Len(Tree(o).leaves) => Tree(o).leaves[i] = Hash(Leaves(o)[i])

\* C3: for the state S built by sign-ups and poll deployments (object 1),
\* fromJSON(S.toJSON()) is returned, equals S, and has S's numSignUps and
\* S's number of state leaves.
C3_RoundTripEquals ==
    LET json == toJSON(View(1)) IN
    /\ json.err = "none"
    /\ LET r == fromJSON(json, 2) IN
       /\ r.err = "none"
       /\ equals(r.obj, View(1)) = "true"
       /\ r.obj.numSignUps = View(1).numSignUps
       /\ Len(r.obj.stateLeaves) = Len(View(1).stateLeaves)

\* a signUp, deployPoll or deployNullPoll call on object o
Mutation(o) ==
    \/ \E k \in PubKeys, b \in Balances, t \in Timestamps : SignUp(o, k, b, t)
    \/ \E e \in EndTimestamps, d \in IntDepths, m \in BatchSizes : DeployPoll(o, e, d, m)
    \/ DeployNullPoll(o)

\* C4: when object 2 is a copy, no signUp, deployPoll or deployNullPoll on it
\* changes any field of object 1 (stateLeaves, numSignUps, accumulator leaves,
\* polls, depth, processing marker).
C4_CopyIndependence ==
    [][(origin = "copy" /\ Mutation(2)) => View(1)' = View(1)]_vars

\* C4 witness: a copy that has had a sign-up of its own since it was made
\* (copy gives it the original's leaves, and the original only grows).
C4_Witness ==
    /\ origin = "copy"
    /\ Len(Leaves(2)) > Len(Leaves(1))
    /\ Len(Leaves(1)) >= 2

\* an object whose count and accumulator agree with its stateLeaves
Consistent(o) ==
    /\ objs[o].numSignUps = Len(Leaves(o))
    /\ Len(Tree(o).leaves) = Len(Leaves(o))

\* C5: whenever copy() of a reachable object returns (here: of one whose count
\* and accumulator agree with its leaves), the copy has the original's
\* stateTreeDepth, stateLeaves, polls, numSignUps and accumulator leaves.
C5_CopyIsDeep ==
    \A o \in Objs :
        LET r == copy(o) IN
        (Consistent(o) /\ r.err = "none") =>
            /\ r.obj.stateTreeDepth = View(o).stateTreeDepth
            /\ r.obj.stateLeaves = View(o).stateLeaves
            /\ r.obj.polls = View(o).polls
            /\ r.obj.numSignUps = View(o).numSignUps
            /\ r.obj.stateTree.leaves = View(o).stateTree.leaves

C7_StateNotMergedGate ==
    loc.isStateAqMerged = "false" =>
        /\ pc = "done"
        /\ outcome = "NOT_MERGED_STATE_TREE"
        /\ ~Member("generateMpProofs", calls)
        /\ ~Member("generateTallyProofs", calls)

\* C7 witness: the flag was read as false
C7_Witness == loc.isStateAqMerged = "false" /\ Member("stateMerged", calls)

\* the key was decrypted and its public key is not the on-chain one
KeyMismatch ==
    /\ Member("decrypt", calls)
    /\ chain.decrypt # "throws"
    /\ PubKeyOf(PrivKeyOf(chain.decrypt)) # chain.coordinatorPubKey

\* C8: when the decrypted key's public key differs from the on-chain key, the
\* invocation has failed with PRIVATE_KEY_MISMATCH and prepareState was not called.
C8_KeyMismatchBeforeScan ==
    KeyMismatch =>
        /\ pc = "done"
        /\ outcome = "PRIVATE_KEY_MISMATCH"
        /\ ~Member("prepareState", calls)

\* C8 witness: a mismatch in the y coordinate alone
C8_Witness ==
    /\ KeyMismatch
    /\ PubKeyOf(PrivKeyOf(chain.decrypt)).x = chain.coordinatorPubKey.x

\* the steps of generate in the order of C9, each with the failure it reports
\* and the collaborator calls it makes
Stages(c) ==
    << [fails |-> c.pollAddress = ZeroAddress, code |-> "POLL_NOT_FOUND",
        calls |-> <<"getContract(MACI)", "getDeployer", "polls">>],
       [fails |-> FALSE, code |-> "",
        calls |-> <<"getContract(Poll)", "extContracts", "coordinatorPubKey",
                    "getContract(AccQueue)">>],
       [fails |-> ~c.stateMerged, code |-> "NOT_MERGED_STATE_TREE",
        calls |-> <<"stateMerged">>],
       [fails |-> c.mainRoot = 0, code |-> "NOT_MERGED_MESSAGE_TREE",
        calls |-> <<"treeDepths", "getMainRoot">>],
       [fails |-> c.decrypt = "throws", code |-> "DecryptError",
        calls |-> <<"getPrivateKey", "decrypt">>],
       [fails |-> c.decrypt # "throws" /\ PubKeyOf(PrivKeyOf(c.decrypt)) # c.coordinatorPubKey,
        code |-> "PRIVATE_KEY_MISMATCH", calls |-> <<>>],
       [fails |-> c.prepareState = "throws", code |-> "PrepareStateError",
        calls |-> <<"prepareState">>],
       [fails |-> c.prepareState = "noPoll", code |-> "POLL_NOT_FOUND", calls |-> <<>>],
       [fails |-> ~c.mpOk, code |-> "MpProofsError",
        calls |-> <<"getZkeyFilePaths", "getZkeyFilePaths", "generateMpProofs">>],
       [fails |-> ~c.tallyOk, code |-> "TallyProofsError",
        calls |-> <<"generateTallyProofs">>] >>

\* outcome and calls of a run that goes through stages i.. and stops at the first failure
RECURSIVE RunFrom(_, _, _)
RunFrom(st, i, done) ==
    IF i > Len(st) THEN [outcome |-> "returned", calls |-> done]
    ELSE IF st[i].fails THEN [outcome |-> st[i].code, calls |-> done \o st[i].calls]
    ELSE RunFrom(st, i + 1, done \o st[i].calls)

FirstFourPass(c) ==
    /\ c.pollAddress # ZeroAddress
    /\ c.stateMerged
    /\ c.mainRoot # 0
    /\ c.decrypt # "throws"
    /\ PubKeyOf(PrivKeyOf(c.decrypt)) = c.coordinatorPubKey

\* C9: a finished invocation ended with the error of the first failing step in
\* the order poll address, state merged, message root, key, reconstruction,
\* poll in state, proofs; it made the calls up to that step and none after it;
\* prepareState and the proof backend are called only when the first four
\* checks passed.
C9_FailFast ==
    /\ pc = "done" =>
        /\ outcome = RunFrom(Stages(chain), 1, <<>>).outcome
        /\ calls = RunFrom(Stages(chain), 1, <<>>).calls
    /\ (Member("prepareState", calls) \/ Member("generateMpProofs", calls)
          \/ Member("generateTallyProofs", calls)) => FirstFourPass(chain)

\* C9 witness: the state-merge failure is reported although the message root
\* and the key would fail too, and the poll is missing from the state
C9_Witness ==
    /\ pc = "done"
    /\ outcome = "NOT_MERGED_STATE_TREE"
    /\ chain.mainRoot = 0
    /\ chain.decrypt = "key1" /\ chain.coordinatorPubKey = PubKeyOf(2)
    /\ chain.prepareState = "noPoll"

\* STATE_TREE_ARITY ^ d, written out
ArityPower(d) ==
    CASE d = 0 -> 1
      [] d = 1 -> 5
      [] d = 2 -> 25
      [] d = 3 -> 125
      [] OTHER -> 0

\* C10: every poll made by deployPoll has subsidyBatchSize = tallyBatchSize =
\* STATE_TREE_ARITY ^ intStateTreeDepth, whatever its messageBatchSize.
C10_BatchSizes ==
    \A i \in 1..Len(Polls(1)) :
        LET p == Polls(1)[i] IN
        /\ p.batchSizes.subsidyBatchSize = ArityPower(p.treeDepths.intStateTreeDepth)
        /\ p.batchSizes.tallyBatchSize = ArityPower(p.treeDepths.intStateTreeDepth)

\* C10 witness: two polls of the same depth and different message batch sizes
C10_Witness ==
    /\ Len(Polls(1)) = 2
    /\ Polls(1)[1].treeDepths.intStateTreeDepth = 2
    /\ Polls(1)[2].treeDepths.intStateTreeDepth = 2
    /\ Polls(1)[1].batchSizes.messageBatchSize = 1
    /\ Polls(1)[2].batchSizes.messageBatchSize = 25
    /\ Polls(1)[1].batchSizes.tallyBatchSize = Polls(1)[2].batchSizes.tallyBatchSize

\* a serialized record whose numSignUps is the number of its stateLeaves
WellFormed(r) == r.numSignUps = Len(r.stateLeaves)

\* C11: for every well-formed record r of the state (every boolean flag, every
\* marker string that is empty or the index of one of its polls, "0" included),
\* fromJSON(r) is returned and fromJSON(r).toJSON() equals r field for field.
C11_RecordRoundTrip ==
    \A r \in Records(1) :
        WellFormed(r) =>
            LET m == fromJSON(r, 2) IN
            /\ m.err = "none"
            /\ toJSON(m.obj) = r

\* C12: a signUp call that returns, returns stateLeaves.length as it was before
\* the call, which is numSignUps - 1 after the call, and stateLeaves at that
\* index is the leaf made of the call's arguments.
C12_SignUpReturnsIndex ==
    [][\A o \in Objs, k \in PubKeys, b \in Balances, t \in Timestamps :
          (SignUp(o, k, b, t) /\ ret'.err = "none") =>
              /\ ret'.val = Len(Leaves(o))
              /\ ret'.val = objs'[o].numSignUps - 1
              /\ Leaves(o)'[ret'.val + 1] = StateLeaf(k, b, t)]_vars

\* C13: neither the accumulator nor stateLeaves of any object holds more than
\* STATE_TREE_ARITY ^ stateTreeDepth leaves, and signUp on a full accumulator
\* fails with CapacityExceeded.
C13_CapacityRespected ==
    \A o \in Objs :
        /\ Len(Tree(o).leaves) <= Capacity(Tree(o))
        /\ Len(Leaves(o)) <= Capacity(Tree(o))
        /\ Len(Tree(o).leaves) = Capacity(Tree(o)) =>
               \A k \in OnePubKey, b \in Balances, t \in Timestamps :
                   signUp(o, k, b, t).err = "CapacityExceeded"

\* s is t with entries appended
IsPrefix(s, t) == Len(s) <= Len(t) /\ SubSeq(t, 1, Len(s)) = s

\* a deployPoll or deployNullPoll call on object o
Deployment(o) ==
    \/ \E e \in EndTimestamps, d \in IntDepths, m \in BatchSizes :
           DeployPollTo(o, e, d, m, MaxPollsWide)
    \/ DeployNullPollTo(o, MaxPollsWide)

\* C14: a deployPoll or deployNullPoll call on a state appends one entry to its
\* registry at index = the previous length (which deployPoll returns), keeps
\* the earlier entries, stateLeaves, numSignUps and the accumulator; and no
\* call on the state ever removes or changes an entry of its registry.
C14_RegistryAppendOnly ==
    [][/\ Deployment(1) =>
            /\ Len(Polls(1)') = Len(Polls(1)) + 1
            /\ SubSeq(Polls(1)', 1, Len(Polls(1))) = Polls(1)
            /\ (ret'.op = "deployPoll" => ret'.val = Len(Polls(1)))
            /\ Leaves(1)' = Leaves(1)
            /\ Tree(1)' = Tree(1)
            /\ objs'[1].numSignUps = objs[1].numSignUps
       /\ IsPrefix(Polls(1), Polls(1)')]_vars

\* C14 witness: a placeholder deployed behind an earlier poll, which is still
\* at index 0
C14_Witness ==
    /\ ret.op = "deployNullPoll"
    /\ Len(Polls(1)) = 2
    /\ ~IsNull(Polls(1)[1])
    /\ IsNull(Polls(1)[2])
    /\ Len(Leaves(1)) >= 2

\* the errors a call raises on purpose, as against the runtime's TypeError for
\* a method call on null
ExplicitErrors == {"PollNotFound", "NullPoll"}

\* C15: no call has ended by dereferencing a null registry entry, and on an
\* object whose registry holds a placeholder, copy, toJSON and equals each
\* fail with an explicit error.
C15_NullPollExplicit ==
    /\ ret.err # "TypeError"
    /\ \A o \in Objs :
           HasNullPoll(Polls(o)) =>
               /\ copy(o).err \in ExplicitErrors
               /\ toJSON(View(o)).err \in ExplicitErrors
               /\ equals(View(o), View(o)) \in ExplicitErrors

\* C16: fromJSON returns an object only for a well-formed record: an object
\* that fromJSON returned has numSignUps = stateLeaves.length.
C16_MalformedRejected ==
    (origin = "fromJSON" /\ ret.op = "fromJSON" /\ ret.err = "none") =>
        objs[2].numSignUps = Len(Leaves(2))

\* C19: a signUp call that throws leaves every field of its object as it was.
C19_FailedSignUpNoEffect ==
    [][\A o \in Objs, k \in PubKeys, b \in Balances, t \in Timestamps :
          (SignUp(o, k, b, t) /\ ret'.err # "none") => View(o)' = View(o)]_vars

\* currentPollBeingProcessed holds no poll index
NoIndex(n) == n = Undefined \/ n = NaN

\* C20: fromJSON(S.toJSON()) is processing a poll exactly if S is, and its
\* current poll index is that of S (none if S has none).
C20_MarkerRoundTrip ==
    LET json == toJSON(View(1))
        m == fromJSON(json, 2)
    IN  json.err = "none" =>
            /\ m.err = "none"
            /\ (m.obj.pollBeingProcessed = "true") = (View(1).pollBeingProcessed = "true")
            /\ IF NoIndex(View(1).currentPollBeingProcessed)
               THEN NoIndex(m.obj.currentPollBeingProcessed)
               ELSE m.obj.currentPollBeingProcessed = View(1).currentPollBeingProcessed

\* generate() has thrown
Failed == outcome \notin {"idle", "running", "returned"}

\* C17: when generate() has ended in an error, ./proofs and ./tally.json hold
\* nothing new or a complete result.
C17_NoPartialArtifacts ==
    Failed => (disk = {} \/ disk = MpArtifacts \cup TallyArtifacts)

\* number of calls of a collaborator made so far
Count(name) == Cardinality({i \in DOMAIN calls : calls[i] = name})

\* C18: generateMpProofs and generateTallyProofs are each called at most once;
\* generateTallyProofs is called only after a generateMpProofs call that
\* succeeded; generate() returns only when both were called and succeeded.
C18_ProofOrder ==
    /\ Count("generateMpProofs") <= 1
    /\ Count("generateTallyProofs") <= 1
    /\ \A i \in DOMAIN calls :
           calls[i] = "generateTallyProofs" =>
               /\ chain.mpOk
               /\ \E j \in 1..(i - 1) : calls[j] = "generateMpProofs"
    /\ outcome = "returned" =>
           /\ chain.mpOk /\ chain.tallyOk
           /\ Count("generateMpProofs") = 1
           /\ Count("generateTallyProofs") = 1

\* C18 witness: generate() returned, after both requests
C18_Witness ==
    /\ outcome = "returned"
    /\ Count("generateMpProofs") = 1
    /\ calls[Len(calls)] = "generateTallyProofs"

====
